---- MODULE Spec2Model ----
(***************************************************************************)
(* Model of the dashboard's DomainRelationshipMatrix component             *)
(* (frontend/src/components/dashboard/DomainRelationshipMatrix.jsx).       *)
(*                                                                         *)
(* The component receives a record list `data`, derives the ordered list   *)
(* `domains` and the square grid `matrix` from it, and renders either the  *)
(* "no data" placeholder or a table whose cells are coloured through       *)
(* getColorIntensity.                                                      *)
(*                                                                         *)
(* Indices are 1-based here (JavaScript: 0-based); indexOf returns 0       *)
(* where JavaScript returns -1.                                            *)
(***************************************************************************)
EXTENDS Integers, Sequences, FiniteSets, TLC

VARIABLES data, domains, matrix, view, cellBg, cellText, cellLabel, cellClass,
          statsPc, statsStatus, statsData, activityStatus, dashView, lastFetch,
          superseded,
          user, lookups, signedOut, authCrashed,
          loading, initialized, initPc, initSession,
          path, page,
          logoutPc, logoutProvider, logoutResult, logoutLog,
          actPc, recentElements, recentModels, actResult, actSource,
          elements, elementCounts, countsPc,
          request, hPc, status, repoLookups, openaiCalls, logInserts, thrown, completed

\* The state of the DomainRelationshipMatrix component.
matrixVars == <<data, domains, matrix, view, cellBg, cellText, cellLabel, cellClass>>

\* The state of the Dashboard page: its two queries and what it returned last.
\* lastFetch and superseded are history: the source that produced the current
\* statistics, and whether the last result replaced a different displayed list.
dashVars == <<statsPc, statsStatus, statsData, activityStatus, dashView, lastFetch,
              superseded>>

\* The state of AuthProvider: the user, the profile lookups in flight (how many
\* per session user), whether an updater threw, and, as history, whether
\* SIGNED_OUT was the last sign-in or sign-out event handled.
authVars == <<user, lookups, signedOut, authCrashed>>

\* initAuth and the App's effect: the loading flag of AuthProvider, the
\* initialized flag of App, where initAuth stands, and the user it looks up.
initVars == <<loading, initialized, initPc, initSession>>

\* The router: the location, and the element App renders ("none" while App is
\* not mounted).
routeVars == <<path, page>>

\* One call of logout: where it stands, the provider of the user it closed
\* over, what it returned, and the providers it signed out of.
logoutVars == <<logoutPc, logoutProvider, logoutResult, logoutLog>>

appVars == <<initVars, routeVars, logoutVars>>

\* One call of fetchRecentActivity: where it stands, the rows the two Supabase
\* queries delivered, what it returned and from which source.
activityVars == <<actPc, recentElements, recentModels, actResult, actSource>>

\* One call of getElementCountsFromData: its argument, whether it returned,
\* and what.
countsVars == <<elements, elementCounts, countsPc>>

\* One request to the ea-genai-assistant function: the request, where the
\* handler stands, the status it answered with, how many repository queries,
\* OpenAI calls and interaction inserts it sent, where exceptions were thrown,
\* and whether the completion was obtained.
genaiVars == <<request, hPc, status, repoLookups, openaiCalls, logInserts, thrown, completed>>

\* The services that are called on their own.
svcVars == <<activityVars, countsVars, genaiVars>>

vars == <<matrixVars, dashVars, authVars, appVars, svcVars>>

(***************************************************************************)
(* Bounds of the model.                                                    *)
(***************************************************************************)
MaxLen == 3
MaxVal == 3
\* Longest record list the API delivers in the model of the Dashboard page.
MaxApiLen == 1
\* Latest timestamp of a row of ea_elements or ea_models (timestamps are 1..MaxTime).
MaxTime == 2
\* Longest element list given to getElementCountsFromData, and the latest day
\* an element was created on (days are 1..MaxDay).
MaxElems == 3
MaxDay == 3
\* Most profile lookups in flight at once.
MaxLookups == 3

\* Two of the five domain names suffice to build every shape of list below.
Names == {"Performance", "Business"}

Records == [source : Names, target : Names, value : 0..MaxVal]

RecordLists == UNION {[1..n -> Records] : n \in 0..MaxLen}

\* Records GET /api/dashboard/stats may deliver: an absent relation, the
\* weakest and the strongest one between any two domains.
ApiRecords == [source : Names, target : Names, value : {0, 1, MaxVal}]

\* Record lists GET /api/dashboard/stats may deliver as relationshipMatrix.
ApiLists == UNION {[1..n -> ApiRecords] : n \in 0..MaxApiLen}

(***************************************************************************)
(* Malformed records.  A missing source or target is JavaScript's          *)
(* undefined; a missing or non-numeric value is written NotANumber, a      *)
(* number no well-formed record has (Math.max and Math.min turn it into    *)
(* NaN).                                                                   *)
(***************************************************************************)
Undefined == "undefined"

NotANumber == -1

MalformedRecords ==
  { [source |-> Undefined, target |-> "Business", value |-> 1],
    [source |-> "Performance", target |-> Undefined, value |-> 1],
    [source |-> "Performance", target |-> "Business", value |-> NotANumber] }

IsMalformed(r) == r.source = Undefined \/ r.target = Undefined \/ r.value = NotANumber

IsMalformedList(R) == \E k \in 1..Len(R) : IsMalformed(R[k])

\* A malformed record alone, or next to one well-formed record.
MalformedLists ==
  {<<m>> : m \in MalformedRecords}
    \cup {<<r, m>> : r \in Records, m \in MalformedRecords}
    \cup {<<m, r>> : m \in MalformedRecords, r \in Records}

(***************************************************************************)
(* The relationshipMatrix literal of fetchDashboardStats (Supabase branch);*)
(* getMockDashboardStats writes the same ten records out again.            *)
(***************************************************************************)
Rel(s, t, v) == [source |-> s, target |-> t, value |-> v]

relationshipMatrix ==
  << Rel("Performance", "Business", 12), Rel("Performance", "Services", 8),
     Rel("Performance", "Data", 5), Rel("Performance", "Technology", 3),
     Rel("Business", "Services", 15), Rel("Business", "Data", 9),
     Rel("Business", "Technology", 6), Rel("Services", "Data", 14),
     Rel("Services", "Technology", 10), Rel("Data", "Technology", 7) >>

getMockDashboardStats == relationshipMatrix

(***************************************************************************)
(* JavaScript numbers that getColorIntensity can produce, kept exact: a    *)
(* finite value is a fraction num/den in lowest terms with den > 0; den = 0*)
(* stands for the outcome of a division by zero (num = 0: NaN, num = 1:    *)
(* Infinity, num = -1: -Infinity).                                         *)
(***************************************************************************)
Abs(n) == IF n < 0 THEN -n ELSE n

Sign(n) == IF n < 0 THEN -1 ELSE IF n > 0 THEN 1 ELSE 0

RECURSIVE Gcd(_, _)
Gcd(a, b) == IF b = 0 THEN a ELSE Gcd(b, a % b)

Num(n) == [num |-> n, den |-> 1]

NaN == [num |-> 0, den |-> 0]

Divide(a, b) ==
  IF b = 0 THEN [num |-> Sign(a), den |-> 0]
  ELSE LET g == Gcd(Abs(a), Abs(b))
       IN  [num |-> (Sign(b) * a) \div g, den |-> Abs(b) \div g]

Times(x, k) ==
  IF x.den = 0 THEN [num |-> Sign(x.num * k), den |-> 0]
  ELSE Divide(x.num * k, x.den)

(***************************************************************************)
(* const domains = useMemo(...): a Set filled in one scan of data, source  *)
(* before target, then Array.from.  A JavaScript Set iterates in insertion *)
(* order and ignores the insertion of a member it already holds.           *)
(***************************************************************************)
\* Variant: an array push, which keeps a name it already holds.
SetAdd_push(s, x) == Append(s, x)

SetAdd(s, x) == IF \E i \in 1..Len(s) : s[i] = x THEN s ELSE Append(s, x)

\* Variant: the target of a record is inserted before its source.
RECURSIVE allDomains_targetFirst(_, _)
allDomains_targetFirst(R, n) ==
  IF n = 0 THEN <<>>
  ELSE SetAdd(SetAdd(allDomains_targetFirst(R, n - 1), R[n].target), R[n].source)

RECURSIVE allDomains(_, _)
allDomains(R, n) ==
  IF n = 0 THEN <<>>
  ELSE SetAdd(SetAdd(allDomains(R, n - 1), R[n].source), R[n].target)

ComputeDomains(R) == allDomains(R, Len(R))

(***************************************************************************)
(* Array.prototype.indexOf: the first index holding x, 0 when absent.      *)
(***************************************************************************)
indexOf(s, x) ==
  IF \E i \in 1..Len(s) : s[i] = x
  THEN CHOOSE i \in 1..Len(s) : s[i] = x /\ \A k \in 1..(i - 1) : s[k] # x
  ELSE 0

(***************************************************************************)
(* const matrix = useMemo(...): a grid of zeros, then one assignment per   *)
(* record in list order.                                                   *)
(***************************************************************************)
\* Variant: rows allocated one entry too long.
ZeroMatrix_offByOne(doms) == [i \in 1..Len(doms) |-> [j \in 1..(Len(doms) + 1) |-> 0]]

ZeroMatrix(doms) == [i \in 1..Len(doms) |-> [j \in 1..Len(doms) |-> 0]]

\* Variant: the mirrored assignment of the commented-out line is active.
RECURSIVE mat_symmetric(_, _, _)
mat_symmetric(doms, R, n) ==
  IF n = 0 THEN ZeroMatrix(doms)
  ELSE LET prev        == mat_symmetric(doms, R, n - 1)
           sourceIndex == indexOf(doms, R[n].source)
           targetIndex == indexOf(doms, R[n].target)
       IN  IF sourceIndex # 0 /\ targetIndex # 0
           THEN [prev EXCEPT ![sourceIndex][targetIndex] = R[n].value,
                             ![targetIndex][sourceIndex] = R[n].value]
           ELSE prev

\* Variant: values of a repeated pair are accumulated (+=).
RECURSIVE mat_sum(_, _, _)
mat_sum(doms, R, n) ==
  IF n = 0 THEN ZeroMatrix(doms)
  ELSE LET prev        == mat_sum(doms, R, n - 1)
           sourceIndex == indexOf(doms, R[n].source)
           targetIndex == indexOf(doms, R[n].target)
       IN  IF sourceIndex # 0 /\ targetIndex # 0
           THEN [prev EXCEPT ![sourceIndex][targetIndex] = @ + R[n].value]
           ELSE prev

RECURSIVE mat(_, _, _)
mat(doms, R, n) ==
  IF n = 0 THEN ZeroMatrix(doms)
  ELSE LET prev        == mat(doms, R, n - 1)
           sourceIndex == indexOf(doms, R[n].source)
           targetIndex == indexOf(doms, R[n].target)
       IN  IF sourceIndex # 0 /\ targetIndex # 0
           THEN [prev EXCEPT ![sourceIndex][targetIndex] = R[n].value]
           ELSE prev

ComputeMatrix(doms, R) == mat(doms, R, Len(R))

(***************************************************************************)
(* getColorIntensity: min and max are taken over the value of every record *)
(* of data, on each call.  It is only called while a table is rendered,    *)
(* that is with a non-empty data.                                          *)
(***************************************************************************)
Values(R) == {R[k].value : k \in 1..Len(R)}

maxValue(R) == CHOOSE m \in Values(R) : \A v \in Values(R) : v <= m

minValue(R) == CHOOSE m \in Values(R) : \A v \in Values(R) : m <= v

\* Variant: the range === 0 test is missing.
getColorIntensity_noGuard(R, value) ==
  Times(Divide(value - minValue(R), maxValue(R) - minValue(R)), 100)

getColorIntensity(R, value) ==
  IF NotANumber \in Values(R) \/ value = NotANumber
  THEN NaN   \* maxValue and minValue are NaN, and so are range and the quotient
  ELSE LET range == maxValue(R) - minValue(R)
       IN  IF range = 0 THEN Num(50)
           ELSE Times(Divide(value - minValue(R), range), 100)

(***************************************************************************)
(* What a rendered cell obtained from getColorIntensity.  getCellColor     *)
(* returns the neutral class for value 0 without calling it; getTextColor  *)
(* calls it for every value.                                               *)
(***************************************************************************)
NoCall == [num |-> 0, den |-> -1]

\* Variant: the early return for value 0 is missing.
getCellColor_noBypass(R, value) == getColorIntensity(R, value)

getCellColor(R, value) == IF value = 0 THEN NoCall ELSE getColorIntensity(R, value)

getTextColor(R, value) == getColorIntensity(R, value)

(***************************************************************************)
(* The class names of a cell.  A shade is the number after "bg-blue-" or   *)
(* "border-blue-"; the quotient is exact here, so that Math.round sees a   *)
(* half where a double may lie just beside it.                             *)
(***************************************************************************)
\* Math.round(q): the integer nearest to q, a half going up.
MathRound(q) == (2 * q.num + q.den) \div (2 * q.den)

\* Math.round((intensity / 100) * 9) * 100.
bgShade(intensity) ==
  IF intensity.den = 0 THEN NotANumber
  ELSE MathRound(Times(Divide(intensity.num, intensity.den * 100), 9)) * 100

\* Variant: the border shade without Math.min.
borderShade_uncapped(shade) ==
  IF shade = NotANumber THEN NotANumber ELSE shade + 100

\* Math.min(shade + 100, 900).
borderShade(shade) ==
  IF shade = NotANumber THEN NotANumber
  ELSE IF shade + 100 < 900 THEN shade + 100 ELSE 900

\* intensity > 50 ? 'text-white' : 'text-gray-900 dark:text-white'.
textClass(intensity) ==
  IF intensity.den # 0 /\ intensity.num > 50 * intensity.den
  THEN "text-white" ELSE "text-gray-900 dark:text-white"

\* The colour classes of the cell with this value, given what getCellColor and
\* getTextColor obtained from getColorIntensity.
cellClassName(value, bgIntensity, textIntensity) ==
  IF value = 0
  THEN [bg |-> <<"gray", 100>>, border |-> <<>>, text |-> textClass(textIntensity)]
  ELSE [bg     |-> <<"blue", bgShade(bgIntensity)>>,
        border |-> <<"blue", borderShade(bgShade(bgIntensity))>>,
        text   |-> textClass(textIntensity)]

\* The text of a cell: {value > 0 ? value : '-'}.
getCellLabel(value) == IF value > 0 THEN ToString(value) ELSE "-"

(***************************************************************************)
(* useMemo: React keeps the value of the previous render pass of a mounted *)
(* component while the dependencies are the same, and calls the factory    *)
(* again otherwise.  domains depends on [data], matrix on [domains, data]. *)
(***************************************************************************)
useMemoDomains(mounted, oldData, oldDomains, R) ==
  IF mounted /\ R = oldData THEN oldDomains ELSE ComputeDomains(R)

\* Variant: data is missing from the dependency list of matrix.
useMemoMatrix_depsDomainsOnly(mounted, oldData, oldDomains, oldMatrix, doms, R) ==
  IF mounted /\ doms = oldDomains THEN oldMatrix ELSE ComputeMatrix(doms, R)

useMemoMatrix(mounted, oldData, oldDomains, oldMatrix, doms, R) ==
  IF mounted /\ doms = oldDomains /\ R = oldData THEN oldMatrix ELSE ComputeMatrix(doms, R)

\* Variant: the "no data" test is missing.
IsEmptyState_never(R, doms) == FALSE

\* if (!data || data.length === 0 || domains.length === 0): the "no data" state.
IsEmptyState(R, doms) == Len(R) = 0 \/ Len(doms) = 0

(***************************************************************************)
(* The component.                                                          *)
(***************************************************************************)
(***************************************************************************)
(* AuthProvider (services/auth.js).  A field a user object does not have   *)
(* is Undefined; NullUser is the state null.                               *)
(***************************************************************************)
Users == {"u1", "u2"}

UserObject(id, email, name, role, provider) ==
  [present |-> TRUE, id |-> id, email |-> email, name |-> name, role |-> role,
   provider |-> provider]

NullUser ==
  [present |-> FALSE, id |-> Undefined, email |-> Undefined, name |-> Undefined,
   role |-> Undefined, provider |-> Undefined]

EmailOf(u) == IF u = "u1" THEN "u1@example.org" ELSE "u2@example.org"

\* What the lookup in table users delivers as data: no row, or a row whose
\* full_name and role may be empty.
NoRow == [found |-> FALSE, full_name |-> Undefined, role |-> Undefined]

ProfileRows ==
  {NoRow} \cup [found : {TRUE}, full_name : {"Ann", Undefined}, role : {"admin", "editor", Undefined}]

\* const isAuthenticated = !!user.
isAuthenticated == user.present

\* AuthProvider after construction: useState(null), no lookup started.
AuthIdle ==
  /\ user = NullUser
  /\ lookups = [u \in Users |-> 0]
  /\ signedOut = FALSE
  /\ authCrashed = FALSE

\* The updater of the profile lookup applied to the state prev:
\* prev => ({...prev, name: data.full_name || prev.email, role: data.role || 'viewer'}).
\* Spreading null gives no field; prev.email is only read when full_name is empty.
ProfileUpdater(prev, row) ==
  [present  |-> TRUE,
   id       |-> prev.id,
   email    |-> prev.email,
   name     |-> IF row.full_name # Undefined THEN row.full_name ELSE prev.email,
   role     |-> IF row.role # Undefined THEN row.role ELSE "viewer",
   provider |-> prev.provider]

\* prev.email is read on null: the updater throws a TypeError.
UpdaterThrows(prev, row) == ~prev.present /\ row.full_name = Undefined

(***************************************************************************)
(* App (App.jsx): the loading screen and the routes.                       *)
(***************************************************************************)
ProtectedPaths == {"/", "/modeling", "/repository", "/integration", "/genai", "/settings"}

Paths == ProtectedPaths \cup {"/login", "/other"}

\* The page component of a protected route.
PageOf(p) ==
  CASE p = "/"            -> "Dashboard"
    [] p = "/modeling"    -> "Modeling"
    [] p = "/repository"  -> "Repository"
    [] p = "/integration" -> "Integration"
    [] p = "/genai"       -> "GenAIPage"
    [] p = "/settings"    -> "Settings"

ProtectedPages == {PageOf(p) : p \in ProtectedPaths}

ShowPage(name) == [navigate |-> FALSE, name |-> name, to |-> Undefined]

NavigateTo(p) == [navigate |-> TRUE, name |-> "Navigate", to |-> p]

\* Variant: the /settings route renders its page without asking isAuthenticated.
RouteElement_settingsOpen(p, auth) ==
  IF p = "/login" THEN (IF ~auth THEN ShowPage("Login") ELSE NavigateTo("/"))
  ELSE IF p = "/settings" THEN ShowPage(PageOf(p))
  ELSE IF p \in ProtectedPaths
  THEN (IF auth THEN ShowPage(PageOf(p)) ELSE NavigateTo("/login"))
  ELSE ShowPage("NotFound")

\* The element of the route that matches location p.
RouteElement(p, auth) ==
  IF p = "/login" THEN (IF ~auth THEN ShowPage("Login") ELSE NavigateTo("/"))
  ELSE IF p \in ProtectedPaths
  THEN (IF auth THEN ShowPage(PageOf(p)) ELSE NavigateTo("/login"))
  ELSE ShowPage("NotFound")

\* What App returns at location p, a <Navigate> followed to its target.
AppView(init, load, auth, p) ==
  IF ~init \/ load
  THEN [path |-> p, page |-> "Loading"]
  ELSE LET e == RouteElement(p, auth)
       IN  IF e.navigate
           THEN [path |-> e.to, page |-> RouteElement(e.to, auth).name]
           ELSE [path |-> p, page |-> e.name]

\* App is not part of the run.
AppIdle ==
  /\ loading = TRUE
  /\ initialized = FALSE
  /\ initPc = "idle"
  /\ initSession = Undefined
  /\ path = "/"
  /\ page = "none"
  /\ logoutPc = "idle"
  /\ logoutProvider = Undefined
  /\ logoutResult = "none"
  /\ logoutLog = {}

\* A state change re-renders App, when it is mounted, at location p; an
\* exception thrown while rendering unmounts the whole tree.
AppRerender(usr, load, init, crashed, p) ==
  IF page = "none"
  THEN UNCHANGED routeVars
  ELSE IF crashed
  THEN page' = "none" /\ path' = p
  ELSE LET v == AppView(init, load, usr.present, p)
       IN  path' = v.path /\ page' = v.page

\* onAuthStateChange: event SIGNED_IN with a session of user u.
AuthSignedIn(u) ==
  /\ ~authCrashed
  /\ lookups[u] + lookups[CHOOSE v \in Users : v # u] < MaxLookups
  /\ user' = UserObject(u, EmailOf(u), Undefined, "viewer", "supabase")
  /\ lookups' = [lookups EXCEPT ![u] = @ + 1]
  /\ signedOut' = FALSE
  /\ AppRerender(user', loading, initialized, FALSE, path)
  /\ UNCHANGED <<authCrashed, matrixVars, dashVars, svcVars, initVars, logoutVars>>

\* onAuthStateChange: event SIGNED_OUT.
AuthSignedOut ==
  /\ ~authCrashed
  /\ user' = NullUser
  /\ signedOut' = TRUE
  /\ AppRerender(user', loading, initialized, FALSE, path)
  /\ UNCHANGED <<lookups, authCrashed, matrixVars, dashVars, svcVars, initVars, logoutVars>>

\* The profile lookup that the SIGNED_IN event of user u started resolves with row.
ProfileResolve(u, row) ==
  /\ ~authCrashed
  /\ lookups[u] > 0
  /\ lookups' = [lookups EXCEPT ![u] = @ - 1]
  /\ IF ~row.found
     THEN UNCHANGED <<user, authCrashed>>
     ELSE IF UpdaterThrows(user, row)
     THEN UNCHANGED user /\ authCrashed' = TRUE
     ELSE user' = ProfileUpdater(user, row) /\ UNCHANGED authCrashed
  /\ AppRerender(user', loading, initialized, authCrashed', path)
  /\ UNCHANGED <<signedOut, matrixVars, dashVars, svcVars, initVars, logoutVars>>

(***************************************************************************)
(* initAuth (services/auth.js) and the effect of App that calls it.        *)
(***************************************************************************)
\* The Microsoft account msalInstance.getAllAccounts() returns first.
MsAccount == "u2"

\* The user initAuth sets from a Supabase session of u and its profile row.
SessionUser(u, row) ==
  UserObject(u, EmailOf(u),
             IF row.full_name # Undefined THEN row.full_name ELSE EmailOf(u),
             IF row.role # Undefined THEN row.role ELSE "viewer",
             "supabase")

\* The user initAuth sets from the Microsoft account and the row of table users.
MicrosoftUser(row) ==
  UserObject(IF row.found THEN MsAccount ELSE Undefined, EmailOf(MsAccount),
             EmailOf(MsAccount),
             IF row.found /\ row.role # Undefined THEN row.role ELSE "viewer",
             "microsoft")

\* finally { setLoading(false) }; return true.  usr is the user state after the
\* try block.
InitAuthFinally(usr) ==
  /\ user' = usr
  /\ loading' = FALSE
  /\ initPc' = "returned"
  /\ initSession' = Undefined
  /\ AppRerender(usr, FALSE, initialized, FALSE, path)
  /\ UNCHANGED <<initialized, lookups, signedOut, authCrashed, matrixVars, dashVars, svcVars,
                 logoutVars>>

\* The effect of App runs: initAuth sets loading and asks for the session.
InitAuthCall ==
  /\ ~authCrashed
  /\ initPc = "effect"
  /\ loading' = TRUE
  /\ initPc' = "getSession"
  /\ AppRerender(user, TRUE, initialized, FALSE, path)
  /\ UNCHANGED <<initialized, initSession, authVars, matrixVars, dashVars, svcVars, logoutVars>>

\* getSession resolves with a session of user u: the profile row is looked up.
GetSessionResolve(u) ==
  /\ ~authCrashed
  /\ initPc = "getSession"
  /\ initPc' = "profile"
  /\ initSession' = u
  /\ UNCHANGED <<loading, initialized, routeVars, authVars, matrixVars, dashVars, svcVars, logoutVars>>

\* getSession resolves without a session and MSAL has an account: the account's
\* row of table users is looked up.
GetSessionNoneWithAccount ==
  /\ ~authCrashed
  /\ initPc = "getSession"
  /\ initPc' = "existingUser"
  /\ initSession' = MsAccount
  /\ UNCHANGED <<loading, initialized, routeVars, authVars, matrixVars, dashVars, svcVars, logoutVars>>

\* getSession resolves without a session and there is no Microsoft account, or
\* getSession rejects: nothing is set.
GetSessionNothing ==
  /\ ~authCrashed
  /\ initPc = "getSession"
  /\ InitAuthFinally(user)

\* The profile lookup of initAuth resolves.
InitProfileResolve(row) ==
  /\ ~authCrashed
  /\ initPc = "profile"
  /\ InitAuthFinally(SessionUser(initSession, row))

\* The lookup of the Microsoft account's row resolves.
InitExistingUserResolve(row) ==
  /\ ~authCrashed
  /\ initPc = "existingUser"
  /\ InitAuthFinally(MicrosoftUser(row))

\* A lookup of initAuth rejects: catch logs the error.
InitLookupReject ==
  /\ ~authCrashed
  /\ initPc \in {"profile", "existingUser"}
  /\ InitAuthFinally(user)

\* initAuth().then(() => setInitialized(true)).
AppInitialized ==
  /\ ~authCrashed
  /\ initPc = "returned"
  /\ initialized' = TRUE
  /\ initPc' = "done"
  /\ AppRerender(user, loading, TRUE, FALSE, path)
  /\ UNCHANGED <<loading, initSession, authVars, matrixVars, dashVars, svcVars, logoutVars>>

InitAuthStep ==
  \/ InitAuthCall
  \/ \E u \in Users : GetSessionResolve(u)
  \/ GetSessionNoneWithAccount
  \/ GetSessionNothing
  \/ \E row \in ProfileRows : InitProfileResolve(row)
  \/ \E row \in ProfileRows : InitExistingUserResolve(row)
  \/ InitLookupReject
  \/ AppInitialized

\* The location changes to p (a link, the address bar).
UserNavigates(p) ==
  /\ ~authCrashed
  /\ page # "none"
  /\ AppRerender(user, loading, initialized, FALSE, p)
  /\ UNCHANGED <<initVars, authVars, matrixVars, dashVars, svcVars, logoutVars>>

(***************************************************************************)
(* logout (services/auth.js).                                              *)
(***************************************************************************)
\* logout's setUser(null); return { success: true }.
LogoutSucceeds(log) ==
  /\ user' = NullUser
  /\ logoutPc' = "idle"
  /\ logoutResult' = "success"
  /\ logoutLog' = log
  /\ AppRerender(NullUser, loading, initialized, FALSE, path)
  /\ UNCHANGED <<logoutProvider, lookups, signedOut, authCrashed, initVars,
                 matrixVars, dashVars, svcVars>>

\* catch (error): return { success: false, error: error.message }.
LogoutFails ==
  /\ logoutPc' = "idle"
  /\ logoutResult' = "failure"
  /\ UNCHANGED <<logoutProvider, logoutLog, authVars, initVars, routeVars,
                 matrixVars, dashVars, svcVars>>

\* A page calls the logout of the render it was given: supabase.auth.signOut().
LogoutCall ==
  /\ ~authCrashed
  /\ page \in ProtectedPages
  /\ logoutPc = "idle"
  /\ logoutPc' = "signOut"
  /\ logoutProvider' = user.provider
  /\ logoutResult' = "none"
  /\ logoutLog' = {}
  /\ UNCHANGED <<authVars, initVars, routeVars, matrixVars, dashVars, svcVars>>

\* Variant: user is cleared as soon as Supabase signed out, before the
\* Microsoft sign-out.
SignOutResolve_clearsEarly ==
  /\ ~authCrashed
  /\ logoutPc = "signOut"
  /\ IF logoutProvider = "microsoft"
     THEN /\ logoutPc' = "msal"
          /\ logoutLog' = {"supabase"}
          /\ user' = NullUser
          /\ AppRerender(NullUser, loading, initialized, FALSE, path)
          /\ UNCHANGED <<logoutProvider, logoutResult, lookups, signedOut, authCrashed,
                         initVars, matrixVars, dashVars, svcVars>>
     ELSE LogoutSucceeds({"supabase"})

\* signOut resolves without error.
SignOutResolve ==
  /\ ~authCrashed
  /\ logoutPc = "signOut"
  /\ IF logoutProvider = "microsoft"
     THEN /\ logoutPc' = "msal"
          /\ logoutLog' = {"supabase"}
          /\ UNCHANGED <<logoutProvider, logoutResult, authVars, initVars, routeVars,
                         matrixVars, dashVars, svcVars>>
     ELSE LogoutSucceeds({"supabase"})

\* signOut resolves with an error, or rejects.
SignOutFail ==
  /\ ~authCrashed
  /\ logoutPc = "signOut"
  /\ LogoutFails

\* msalInstance.logout() resolves.
MsalLogoutResolve ==
  /\ ~authCrashed
  /\ logoutPc = "msal"
  /\ LogoutSucceeds(logoutLog \cup {"microsoft"})

\* msalInstance.logout() rejects.
MsalLogoutReject ==
  /\ ~authCrashed
  /\ logoutPc = "msal"
  /\ LogoutFails

(***************************************************************************)
(* fetchRecentActivity (services/dashboard.js).  A timestamp is a number,  *)
(* which is what new Date(timestamp) yields for the subtraction in the     *)
(* comparator.                                                             *)
(***************************************************************************)
\* .limit(5) of both queries.
QueryLimit == 5

\* .slice(0, 10).
SliceLimit == 10

\* What a query with .order(column, { ascending: false }).limit(5) delivers: at
\* most QueryLimit timestamps, newest first.  The row at position k has id k.
RecentLists ==
  UNION {{ts \in [1..n -> 1..MaxTime] : \A k \in 1..(n - 1) : ts[k] >= ts[k + 1]} :
           n \in 0..QueryLimit}

Activity(id, type, timestamp) == [id |-> id, type |-> type, timestamp |-> timestamp]

\* recentElements.map(el => ({ id: `element_${el.id}`, type: 'element_created', ... })).
ElementActivities(ts) ==
  [k \in 1..Len(ts) |-> Activity("element_" \o ToString(k), "element_created", ts[k])]

\* recentModels.map(model => ({ id: `model_${model.id}`, type: 'model_updated', ... })).
ModelActivities(ts) ==
  [k \in 1..Len(ts) |-> Activity("model_" \o ToString(k), "model_updated", ts[k])]

\* Variant: a comparator with the operands exchanged, which sorts oldest first.
SortedInsert_ascending(a, S) ==
  LET later == {k \in 1..Len(S) : S[k].timestamp >= a.timestamp}
      at    == IF later = {} THEN Len(S) + 1
               ELSE CHOOSE k \in later : \A l \in later : k <= l
  IN  SubSeq(S, 1, at - 1) \o <<a>> \o SubSeq(S, at, Len(S))

\* a, which stood before every activity of the sorted S, takes its place in S:
\* before the first activity that is not newer (Array.prototype.sort is stable).
SortedInsert(a, S) ==
  LET notNewer == {k \in 1..Len(S) : S[k].timestamp <= a.timestamp}
      at       == IF notNewer = {} THEN Len(S) + 1
                  ELSE CHOOSE k \in notNewer : \A l \in notNewer : k <= l
  IN  SubSeq(S, 1, at - 1) \o <<a>> \o SubSeq(S, at, Len(S))

\* .sort((a, b) => new Date(b.timestamp) - new Date(a.timestamp)).
RECURSIVE SortByTimestamp(_)
SortByTimestamp(S) ==
  IF S = <<>> THEN <<>> ELSE SortedInsert(Head(S), SortByTimestamp(Tail(S)))

\* combinedActivity of the rows the two queries delivered.
combinedActivity(els, models) ==
  LET sorted == SortByTimestamp(ElementActivities(els) \o ModelActivities(models))
  IN  SubSeq(sorted, 1, IF Len(sorted) < SliceLimit THEN Len(sorted) ELSE SliceLimit)

\* getMockActivity(): ten literal activities; the timestamps, minutes from
\* 2025-03-19T16:30Z on.
getMockActivity ==
  << Activity("element_1", "element_created", 2820),
     Activity("model_1", "model_updated", 2775),
     Activity("element_2", "element_created", 2690),
     Activity("element_3", "element_updated", 2565),
     Activity("model_2", "model_created", 1440),
     Activity("element_4", "element_deleted", 1395),
     Activity("element_5", "element_created", 1390),
     Activity("model_3", "model_updated", 1310),
     Activity("element_6", "element_created", 1120),
     Activity("element_7", "element_updated", 0) >>

\* What GET /api/dashboard/activity delivers.
ApiActivity == <<Activity("api_1", "element_updated", 1)>>

ActivityIdle ==
  /\ actPc = "idle"
  /\ recentElements = <<>>
  /\ recentModels = <<>>
  /\ actResult = <<>>
  /\ actSource = "none"

othersThanActivity == <<matrixVars, dashVars, authVars, appVars, countsVars, genaiVars>>

\* fetchRecentActivity is called: api.get('/api/dashboard/activity').
ActivityCall ==
  /\ actPc = "idle"
  /\ actPc' = "api"
  /\ recentElements' = <<>>
  /\ recentModels' = <<>>
  /\ actResult' = <<>>
  /\ actSource' = "none"
  /\ UNCHANGED othersThanActivity

\* api.get resolves: return data.
ActivityApiResolve ==
  /\ actPc = "api"
  /\ actPc' = "idle"
  /\ actResult' = ApiActivity
  /\ actSource' = "api"
  /\ UNCHANGED <<recentElements, recentModels, othersThanActivity>>

\* api.get rejects: the query of ea_elements is sent.
ActivityApiReject ==
  /\ actPc = "api"
  /\ actPc' = "elements"
  /\ UNCHANGED <<recentElements, recentModels, actResult, actSource, othersThanActivity>>

\* The query of ea_elements delivers rows: the query of ea_models is sent.
RecentElementsResolve(ts) ==
  /\ actPc = "elements"
  /\ actPc' = "models"
  /\ recentElements' = ts
  /\ UNCHANGED <<recentModels, actResult, actSource, othersThanActivity>>

\* The query of ea_models delivers rows: the combination is returned.
RecentModelsResolve(ts) ==
  /\ actPc = "models"
  /\ actPc' = "idle"
  /\ recentModels' = ts
  /\ actResult' = combinedActivity(recentElements, ts)
  /\ actSource' = "supabase"
  /\ UNCHANGED <<recentElements, othersThanActivity>>

\* A query reports an error or rejects: catch (supabaseError) returns
\* getMockActivity().
ActivitySupabaseFail ==
  /\ actPc \in {"elements", "models"}
  /\ actPc' = "idle"
  /\ actResult' = getMockActivity
  /\ actSource' = "mock"
  /\ UNCHANGED <<recentElements, recentModels, othersThanActivity>>

(***************************************************************************)
(* getElementCountsFromData (services/dashboard.js).  created_at is a day  *)
(* and a time of day; toISOString().split('T')[0] keeps the day.           *)
(***************************************************************************)
TimesOfDay == {"T08:00", "T17:30"}

CreatedAt == [day : 1..MaxDay, time : TimesOfDay]

ElementLists == UNION {[1..n -> CreatedAt] : n \in 0..MaxElems}

\* new Date(element.created_at).toISOString().split('T')[0].
DateOf(created_at) == created_at.day

\* Variant: the count of a day seen again is set to 1 instead of incremented.
CountElement_reset(acc, date) ==
  IF \E k \in 1..Len(acc) : acc[k].date = date
  THEN [k \in 1..Len(acc) |->
          IF acc[k].date = date THEN [acc[k] EXCEPT !.count = 1] ELSE acc[k]]
  ELSE Append(acc, [date |-> date, count |-> 1])

\* The body of the reducer: acc[date] is created with count 0 when missing, and
\* incremented.  acc keeps its keys in the order they were added.
CountElement(acc, date) ==
  IF \E k \in 1..Len(acc) : acc[k].date = date
  THEN [k \in 1..Len(acc) |->
          IF acc[k].date = date THEN [acc[k] EXCEPT !.count = @ + 1] ELSE acc[k]]
  ELSE Append(acc, [date |-> date, count |-> 1])

\* elements.reduce(..., {}), then Object.values.
RECURSIVE countsByDay(_)
countsByDay(els) ==
  IF els = <<>> THEN <<>>
  ELSE CountElement(countsByDay(SubSeq(els, 1, Len(els) - 1)), DateOf(els[Len(els)]))

\* .sort((a, b) => new Date(a.date) - new Date(b.date)).
DateInsert(a, S) ==
  LET notOlder == {k \in 1..Len(S) : S[k].date >= a.date}
      at       == IF notOlder = {} THEN Len(S) + 1
                  ELSE CHOOSE k \in notOlder : \A l \in notOlder : k <= l
  IN  SubSeq(S, 1, at - 1) \o <<a>> \o SubSeq(S, at, Len(S))

RECURSIVE SortByDate(_)
SortByDate(S) == IF S = <<>> THEN <<>> ELSE DateInsert(Head(S), SortByDate(Tail(S)))

\* The length of the mock series, and the largest count in it.
MockDays == 30
MockMaxCount == 5

\* What Math.floor(Math.random() * 5) + 1 yields for the entries in turn.
RandomStreams ==
  {[i \in 1..MockDays |-> c] : c \in 1..MockMaxCount}
    \cup {[i \in 1..MockDays |-> ((i + c) % MockMaxCount) + 1] : c \in 1..MockMaxCount}

\* getMockElementCounts(): the last 30 days up to today, oldest first.
getMockElementCounts(today, rnd) ==
  [i \in 1..MockDays |-> [date |-> today - MockDays + i, count |-> rnd[i]]]

getElementCountsFromData(els, today, rnd) ==
  LET result == SortByDate(countsByDay(els))
  IN  IF Len(result) = 0 THEN getMockElementCounts(today, rnd) ELSE result

CountsIdle ==
  /\ elements = <<>>
  /\ elementCounts = <<>>
  /\ countsPc = "idle"

\* getElementCountsFromData(elements) returns.
ElementCountsReturn(today, rnd) ==
  /\ countsPc = "called"
  /\ countsPc' = "returned"
  /\ elementCounts' = getElementCountsFromData(elements, today, rnd)
  /\ UNCHANGED <<elements, matrixVars, dashVars, authVars, appVars, activityVars, genaiVars>>

(***************************************************************************)
(* The ea-genai-assistant function (supabase/functions/ea-genai-assistant).*)
(***************************************************************************)
\* A query that is no string (a number, say): truthy, without toLowerCase.
NonString == "<number>"

Queries == {Undefined, "", "which services use the customer database", NonString}

\* json tells whether req.json() can parse the body; query and userId are the
\* fields of the parsed body, Undefined when missing.
Requests == [method : {"OPTIONS", "POST"}, json : BOOLEAN, query : Queries,
             userId : {Undefined, "", "u1"}]

\* No response yet.
NoStatus == 0

GenaiIdle ==
  /\ request = [method |-> "OPTIONS", json |-> FALSE, query |-> Undefined, userId |-> Undefined]
  /\ hPc = "idle"
  /\ status = NoStatus
  /\ repoLookups = 0
  /\ openaiCalls = 0
  /\ logInserts = 0
  /\ thrown = {}
  /\ completed = FALSE

SvcIdle == ActivityIdle /\ CountsIdle /\ GenaiIdle

othersThanGenai == <<matrixVars, dashVars, authVars, appVars, activityVars, countsVars>>

\* The handler returns a Response with status st.
Respond(st) ==
  /\ status' = st
  /\ hPc' = "done"

\* fetchEAContext returned: openai.chat.completions.create is called.
CallOpenAI ==
  /\ openaiCalls' = openaiCalls + 1
  /\ hPc' = "openai"
  /\ UNCHANGED status

\* A request arrives.
HandleRequest(r) ==
  /\ hPc \in {"idle", "done"}
  /\ request' = r
  /\ logInserts' = 0
  /\ completed' = FALSE
  /\ IF r.method = "OPTIONS"
     THEN Respond(200) /\ repoLookups' = 0 /\ openaiCalls' = 0 /\ thrown' = {}
     ELSE IF ~r.json
     THEN Respond(500) /\ repoLookups' = 0 /\ openaiCalls' = 0 /\ thrown' = {"req.json"}
     ELSE IF r.query \in {Undefined, ""}
     THEN Respond(400) /\ repoLookups' = 0 /\ openaiCalls' = 0 /\ thrown' = {}
     ELSE IF r.query = NonString
     THEN \* extractKeyTerms throws inside fetchEAContext, which returns {}
          /\ repoLookups' = 0
          /\ thrown' = {"extractKeyTerms"}
          /\ openaiCalls' = 1
          /\ hPc' = "openai"
          /\ status' = NoStatus
     ELSE /\ repoLookups' = 1
          /\ thrown' = {}
          /\ openaiCalls' = 0
          /\ hPc' = "elements"
          /\ status' = NoStatus
  /\ UNCHANGED othersThanGenai

\* fetchEAContext: the query of ea_elements settles (found: with rows), and the
\* query of ea_models is sent.
ContextElementsSettle(found) ==
  /\ hPc = "elements"
  /\ repoLookups' = repoLookups + 1
  /\ hPc' = IF found THEN "modelsThenRelationships" ELSE "models"
  /\ UNCHANGED <<request, status, openaiCalls, logInserts, thrown, completed, othersThanGenai>>

\* fetchEAContext: the query of ea_models settles; with elements found, the
\* query of ea_relationships is sent.
ContextModelsSettle ==
  /\ hPc \in {"models", "modelsThenRelationships"}
  /\ IF hPc = "modelsThenRelationships"
     THEN /\ repoLookups' = repoLookups + 1
          /\ hPc' = "relationships"
          /\ UNCHANGED <<status, openaiCalls>>
     ELSE CallOpenAI /\ UNCHANGED repoLookups
  /\ UNCHANGED <<request, logInserts, thrown, completed, othersThanGenai>>

\* fetchEAContext: the query of ea_relationships settles.
ContextRelationshipsSettle ==
  /\ hPc = "relationships"
  /\ CallOpenAI
  /\ UNCHANGED <<request, repoLookups, logInserts, thrown, completed, othersThanGenai>>

\* fetchEAContext: a query throws; catch returns {}.
ContextThrows ==
  /\ hPc \in {"elements", "models", "modelsThenRelationships", "relationships"}
  /\ thrown' = thrown \cup {"fetchEAContext"}
  /\ CallOpenAI
  /\ UNCHANGED <<request, repoLookups, logInserts, completed, othersThanGenai>>

\* Variant: the interaction is logged whether or not userId is given.
ShouldLog_always(userId) == TRUE

\* if (userId): a missing or empty userId is falsy.
ShouldLog(userId) == userId \notin {Undefined, ""}

\* The completion arrives; wellFormed: completion.choices[0].message exists.
OpenAIResolve(wellFormed) ==
  /\ hPc = "openai"
  /\ IF ~wellFormed
     THEN /\ thrown' = thrown \cup {"completion.choices"}
          /\ Respond(500)
          /\ UNCHANGED <<logInserts, completed>>
     ELSE /\ completed' = TRUE
          /\ UNCHANGED thrown
          /\ IF ShouldLog(request.userId)
             THEN logInserts' = logInserts + 1 /\ hPc' = "log" /\ UNCHANGED status
             ELSE Respond(200) /\ UNCHANGED logInserts
  /\ UNCHANGED <<request, repoLookups, openaiCalls, othersThanGenai>>

\* openai.chat.completions.create rejects.
OpenAIReject ==
  /\ hPc = "openai"
  /\ thrown' = thrown \cup {"openai"}
  /\ Respond(500)
  /\ UNCHANGED <<request, repoLookups, openaiCalls, logInserts, completed, othersThanGenai>>

\* logInteraction returns: the insert settled, or threw (threw) and was caught.
LogSettles(threw) ==
  /\ hPc = "log"
  /\ thrown' = IF threw THEN thrown \cup {"logInteraction"} ELSE thrown
  /\ Respond(200)
  /\ UNCHANGED <<request, repoLookups, openaiCalls, logInserts, completed, othersThanGenai>>

\* The Dashboard page is not part of the run: its state stays as constructed.
DashIdle ==
  /\ statsPc = "idle"
  /\ statsStatus = "loading"
  /\ statsData = <<>>
  /\ activityStatus = "loading"
  /\ dashView = "none"
  /\ lastFetch = "none"
  /\ superseded = FALSE

NotMounted ==
  /\ domains = <<>>
  /\ matrix = <<>>
  /\ view = "none"
  /\ cellBg = <<>>
  /\ cellText = <<>>
  /\ cellLabel = <<>>
  /\ cellClass = <<>>

Init ==
  /\ \E n \in 0..MaxLen : data \in [1..n -> Records]
  /\ NotMounted
  /\ DashIdle
  /\ AuthIdle
  /\ SvcIdle
  /\ AppIdle

\* One render pass of DomainRelationshipMatrix with the data prop R.  The header
\* cell calls domain.toLowerCase(), which throws for a domain that is undefined:
\* nothing catches it, and React unmounts the application.
RenderPass(R) ==
  LET mounted == view \in {"empty", "table"}
      doms    == useMemoDomains(mounted, data, domains, R)
      m       == useMemoMatrix(mounted, data, domains, matrix, doms, R)
  IN  /\ data' = R
      /\ IF IsEmptyState(R, doms)
         THEN /\ view' = "empty"
              /\ domains' = doms
              /\ matrix' = m
              /\ cellBg' = <<>>
              /\ cellText' = <<>>
              /\ cellLabel' = <<>>
              /\ cellClass' = <<>>
         ELSE IF \E i \in 1..Len(doms) : doms[i] = Undefined
         THEN /\ view' = "crashed"
              /\ domains' = <<>>
              /\ matrix' = <<>>
              /\ cellBg' = <<>>
              /\ cellText' = <<>>
              /\ cellLabel' = <<>>
              /\ cellClass' = <<>>
         ELSE /\ view' = "table"
              /\ domains' = doms
              /\ matrix' = m
              /\ cellBg' = [i \in 1..Len(domains') |->
                              [j \in 1..Len(matrix'[i]) |-> getCellColor(R, matrix'[i][j])]]
              /\ cellText' = [i \in 1..Len(domains') |->
                                [j \in 1..Len(matrix'[i]) |-> getTextColor(R, matrix'[i][j])]]
              /\ cellLabel' = [i \in 1..Len(domains') |->
                                 [j \in 1..Len(matrix'[i]) |-> getCellLabel(matrix'[i][j])]]
              /\ cellClass' = [i \in 1..Len(domains') |->
                                 [j \in 1..Len(matrix'[i]) |->
                                    cellClassName(matrix'[i][j], cellBg'[i][j], cellText'[i][j])]]

\* Variant: the pass reverses the prop in place (data.reverse()) before the scan.
Render_reversing ==
  /\ RenderPass([k \in 1..Len(data) |-> data[Len(data) + 1 - k]])
  /\ UNCHANGED <<dashVars, authVars, appVars, svcVars>>

\* The component renders (again) with the data prop it has.
Render ==
  /\ RenderPass(data)
  /\ UNCHANGED <<dashVars, authVars, appVars, svcVars>>

Next == Render

Spec == Init /\ [][Next]_vars

\* AuthProvider alone: the auth events and the profile lookups they start.
NextAuth ==
  \/ \E u \in Users : AuthSignedIn(u)
  \/ AuthSignedOut
  \/ \E u \in Users, row \in ProfileRows : ProfileResolve(u, row)

InitAuth ==
  /\ data = <<>>
  /\ NotMounted
  /\ DashIdle
  /\ AuthIdle
  /\ SvcIdle
  /\ AppIdle

SpecAuth == InitAuth /\ [][NextAuth]_vars

\* The application: App under AuthProvider, opened at any location.
InitApp ==
  /\ data = <<>>
  /\ NotMounted
  /\ DashIdle
  /\ AuthIdle
  /\ SvcIdle
  /\ loading = TRUE
  /\ initialized = FALSE
  /\ initPc = "effect"
  /\ initSession = Undefined
  /\ path \in Paths
  /\ page = "Loading"
  /\ logoutPc = "idle"
  /\ logoutProvider = Undefined
  /\ logoutResult = "none"
  /\ logoutLog = {}

NextApp ==
  \/ InitAuthStep
  \/ \E u \in Users : AuthSignedIn(u)
  \/ AuthSignedOut
  \/ \E u \in Users, row \in ProfileRows : ProfileResolve(u, row)
  \/ \E p \in Paths : UserNavigates(p)
  \/ LogoutCall
  \/ SignOutResolve
  \/ SignOutFail
  \/ MsalLogoutResolve
  \/ MsalLogoutReject

SpecApp == InitApp /\ [][NextApp]_vars

\* fetchRecentActivity called again and again.
InitActivity ==
  /\ data = <<>>
  /\ NotMounted
  /\ DashIdle
  /\ AuthIdle
  /\ AppIdle
  /\ SvcIdle

NextActivity ==
  \/ ActivityCall
  \/ ActivityApiResolve
  \/ ActivityApiReject
  \/ \E ts \in RecentLists : RecentElementsResolve(ts)
  \/ \E ts \in RecentLists : RecentModelsResolve(ts)
  \/ ActivitySupabaseFail

SpecActivity == InitActivity /\ [][NextActivity]_vars

\* getElementCountsFromData applied to every element list.
InitCounts ==
  /\ data = <<>>
  /\ NotMounted
  /\ DashIdle
  /\ AuthIdle
  /\ AppIdle
  /\ ActivityIdle
  /\ GenaiIdle
  /\ elements \in ElementLists
  /\ elementCounts = <<>>
  /\ countsPc = "called"

NextCounts == \E rnd \in RandomStreams : ElementCountsReturn(MaxDay, rnd)

SpecCounts == InitCounts /\ [][NextCounts]_vars

\* The function serving one request after another.
InitGenai ==
  /\ data = <<>>
  /\ NotMounted
  /\ DashIdle
  /\ AuthIdle
  /\ AppIdle
  /\ SvcIdle

NextGenai ==
  \/ \E r \in Requests : HandleRequest(r)
  \/ \E found \in BOOLEAN : ContextElementsSettle(found)
  \/ ContextModelsSettle
  \/ ContextRelationshipsSettle
  \/ ContextThrows
  \/ \E wellFormed \in BOOLEAN : OpenAIResolve(wellFormed)
  \/ OpenAIReject
  \/ \E threw \in BOOLEAN : LogSettles(threw)

SpecGenai == InitGenai /\ [][NextGenai]_vars

\* Every Supabase call of initAuth settles, and the promise callbacks run.
SpecAppFair == SpecApp /\ WF_vars(InitAuthStep)

(***************************************************************************)
(* The Dashboard page (pages/Dashboard.jsx) and fetchDashboardStats        *)
(* (services/dashboard.js).  A change of a query's state re-renders the    *)
(* page in the same step.                                                  *)
(***************************************************************************)
\* The matrix component is not part of what the page returned.
Unmount ==
  /\ data' = <<>>
  /\ domains' = <<>>
  /\ matrix' = <<>>
  /\ view' = "none"
  /\ cellBg' = <<>>
  /\ cellText' = <<>>
  /\ cellLabel' = <<>>
  /\ cellClass' = <<>>

\* Dashboard: loading screen, error card, or the page with the matrix, which
\* gets data = stats?.relationshipMatrix || [].
DashboardRender(sStatus, aStatus, R) ==
  IF sStatus = "loading" \/ aStatus = "loading"
  THEN dashView' = "loading" /\ Unmount
  ELSE IF sStatus = "error" \/ aStatus = "error"
  THEN dashView' = "error" /\ Unmount
  ELSE /\ RenderPass(R)
       /\ dashView' = IF view' = "crashed" THEN "crashed" ELSE "content"

InitDash ==
  /\ data = <<>>
  /\ NotMounted
  /\ statsPc = "api"
  /\ statsStatus = "loading"
  /\ statsData = <<>>
  /\ activityStatus = "loading"
  /\ dashView = "loading"
  /\ lastFetch = "none"
  /\ superseded = FALSE
  /\ AuthIdle
  /\ SvcIdle
  /\ AppIdle

Alive == dashView \notin {"none", "crashed"}

\* fetchDashboardStats returned stats whose relationshipMatrix is R: the query
\* succeeds with it.
QuerySuccess(R, from) ==
  /\ statsPc' = "idle"
  /\ statsStatus' = "success"
  /\ statsData' = R
  /\ lastFetch' = from
  /\ superseded' = (view \in {"empty", "table"} /\ R # data)
  /\ DashboardRender("success", activityStatus, R)
  /\ UNCHANGED <<activityStatus, authVars, appVars, svcVars>>

\* The statistics are fetched again: fetchDashboardStats calls api.get.
StatsRefetch ==
  /\ Alive
  /\ statsPc = "idle"
  /\ statsStatus = "success"
  /\ statsPc' = "api"
  /\ UNCHANGED <<matrixVars, statsStatus, statsData, activityStatus, dashView,
                 lastFetch, superseded, authVars, appVars, svcVars>>

\* api.get resolves: return data.
StatsApiResolve(R) ==
  /\ Alive
  /\ statsPc = "api"
  /\ QuerySuccess(R, "api")

\* api.get rejects: fall back to the Supabase queries.
StatsApiReject ==
  /\ Alive
  /\ statsPc = "api"
  /\ statsPc' = "domainCounts"
  /\ UNCHANGED <<matrixVars, statsStatus, statsData, activityStatus, dashView,
                 lastFetch, superseded, authVars, appVars, svcVars>>

\* The first Supabase query resolves.
StatsDomainCountsResolve ==
  /\ Alive
  /\ statsPc = "domainCounts"
  /\ statsPc' = "elementCounts"
  /\ UNCHANGED <<matrixVars, statsStatus, statsData, activityStatus, dashView,
                 lastFetch, superseded, authVars, appVars, svcVars>>

\* The second Supabase query resolves without error: the literal matrix is returned.
StatsElementCountsResolve ==
  /\ Alive
  /\ statsPc = "elementCounts"
  /\ QuerySuccess(relationshipMatrix, "supabase")

\* Variant: the mock statistics are returned as soon as any source fails, the
\* API included.
StatsSupabaseReject_anySource ==
  /\ Alive
  /\ statsPc \in {"api", "domainCounts", "elementCounts"}
  /\ QuerySuccess(getMockDashboardStats, "mock")

\* A Supabase query throws or reports an error: catch (supabaseError) returns
\* getMockDashboardStats().
StatsSupabaseReject ==
  /\ Alive
  /\ statsPc \in {"domainCounts", "elementCounts"}
  /\ QuerySuccess(getMockDashboardStats, "mock")

\* fetchRecentActivity returns (it has the same fallbacks and never rejects).
ActivitySettle ==
  /\ Alive
  /\ activityStatus = "loading"
  /\ activityStatus' = "success"
  /\ DashboardRender(statsStatus, "success", statsData)
  /\ UNCHANGED <<statsPc, statsStatus, statsData, lastFetch, superseded, authVars, appVars, svcVars>>

DashStep(lists) ==
  \/ StatsRefetch
  \/ \E R \in lists : StatsApiResolve(R)
  \/ StatsApiReject
  \/ StatsDomainCountsResolve
  \/ StatsElementCountsResolve
  \/ StatsSupabaseReject
  \/ ActivitySettle

NextDash == DashStep(ApiLists)

SpecDash == InitDash /\ [][NextDash]_vars

\* The same page when the API may also deliver malformed record lists.
NextMalformed == DashStep(ApiLists \cup MalformedLists)

SpecMalformed == InitDash /\ [][NextMalformed]_vars

TypeOK ==
  /\ data \in RecordLists
  /\ view \in {"none", "empty", "table"}
  /\ DashIdle

(***************************************************************************)
(* Vocabulary of the properties.                                           *)
(***************************************************************************)
Rendered == view # "none"

Side == 1..Len(domains)

SetMax(S) == CHOOSE m \in S : \A x \in S : x <= m

SetMin(S) == CHOOSE m \in S : \A x \in S : m <= x

\* Positions of the records of R that go from a to b.
PairRecords(R, a, b) == {k \in 1..Len(R) : R[k].source = a /\ R[k].target = b}

NamesOf(R) == {R[k].source : k \in 1..Len(R)} \cup {R[k].target : k \in 1..Len(R)}

\* The names in the order a left-to-right scan meets them: source, then target.
Scan(R) ==
  [p \in 1..(2 * Len(R)) |->
     IF p % 2 = 1 THEN R[(p + 1) \div 2].source ELSE R[p \div 2].target]

FirstSeen(R, a) == SetMin({p \in 1..(2 * Len(R)) : Scan(R)[p] = a})

\* The non-zero values the grid shows.
Displayed(m) == {m[i][j] : i \in 1..Len(m), j \in 1..Len(m)} \ {0}

InRange(x) == x.den > 0 /\ 0 <= x.num /\ x.num <= 100 * x.den

\* cellIntensity(value, allValues) of the specification, section 4.1.
cellIntensity(value, allValues) ==
  IF SetMax(allValues) = SetMin(allValues) THEN Num(50)
  ELSE Times(Divide(value - SetMin(allValues), SetMax(allValues) - SetMin(allValues)), 100)

(***************************************************************************)
(* C1: cells[i][j] is the value of a record of R going from domains[i] to  *)
(* domains[j], and 0 when R has no such record.                            *)
(***************************************************************************)
C1_CellsFromRecords ==
  Rendered =>
    \A i \in Side, j \in Side :
      LET ks == PairRecords(data, domains[i], domains[j])
      IN  IF ks = {} THEN matrix[i][j] = 0
          ELSE \E k \in ks : matrix[i][j] = data[k].value

\* A table with a one-directional relationship: a to b recorded, b to a not.
C1_Witness ==
  /\ view = "table"
  /\ \E i \in Side, j \in Side :
       /\ PairRecords(data, domains[i], domains[j]) # {}
       /\ PairRecords(data, domains[j], domains[i]) = {}
       /\ matrix[i][j] > 0
       /\ matrix[j][i] = 0

(***************************************************************************)
(* C2: domains holds every name that occurs as a source or a target in R,  *)
(* each exactly once, and nothing else.                                    *)
(***************************************************************************)
C2_DomainsDistinctAndComplete ==
  Rendered =>
    /\ {domains[i] : i \in Side} = NamesOf(data)
    /\ \A i \in Side, j \in Side : domains[i] = domains[j] => i = j

\* A name used by two records, one of them a self-relationship.
C2_Witness ==
  /\ view = "table"
  /\ \E k \in 1..Len(data), l \in 1..Len(data) :
       /\ k # l
       /\ data[k].source = data[k].target
       /\ data[l].source = data[k].source
  /\ Len(domains) = Cardinality(NamesOf(data))

(***************************************************************************)
(* C3: domains is in first-seen order of one left-to-right scan of R in    *)
(* which a record's source is seen before its target.                      *)
(***************************************************************************)
C3_FirstSeenOrder ==
  Rendered =>
    \A i \in Side, j \in Side :
      domains[i] # domains[j] =>
        (i < j <=> FirstSeen(data, domains[i]) < FirstSeen(data, domains[j]))

\* The first record introduces both names, source first; a later record that
\* names them the other way round does not reorder them.
C3_Witness ==
  /\ view = "table"
  /\ Len(data) >= 2
  /\ data[1].source # data[1].target
  /\ data[2].source = data[1].target
  /\ data[2].target = data[1].source
  /\ domains = <<data[1].source, data[1].target>>

(***************************************************************************)
(* C4: the grid is square, with one row and one column per domain.         *)
(***************************************************************************)
C4_Square ==
  Rendered =>
    /\ Len(matrix) = Len(domains)
    /\ \A i \in 1..Len(matrix) : Len(matrix[i]) = Len(domains)

\* A two-by-two grid built from three records.
C4_Witness ==
  /\ view = "table"
  /\ Len(data) = 3
  /\ Len(domains) = 2
  /\ Len(matrix) = 2
  /\ Len(matrix[1]) = 2
  /\ Len(matrix[2]) = 2

(***************************************************************************)
(* C5: a pair that occurs several times shows the value of its last record;*)
(* nothing is summed or averaged and no cell keeps anything of the earlier *)
(* records: every cell is the last value recorded for its own pair, or 0.  *)
(***************************************************************************)
C5_LastRecordWins ==
  Rendered =>
    \A i \in Side, j \in Side :
      LET ks == PairRecords(data, domains[i], domains[j])
      IN  matrix[i][j] = IF ks = {} THEN 0 ELSE data[SetMax(ks)].value

\* A pair recorded twice with different non-zero values; the cell shows the later.
C5_Witness ==
  /\ view = "table"
  /\ \E k \in 1..Len(data), l \in 1..Len(data) :
       /\ k < l
       /\ data[k].source = data[l].source
       /\ data[k].target = data[l].target
       /\ data[k].value > 0
       /\ data[l].value > 0
       /\ data[k].value # data[l].value
       /\ l = SetMax(PairRecords(data, data[l].source, data[l].target))
       /\ matrix[indexOf(domains, data[l].source)][indexOf(domains, data[l].target)]
            = data[l].value

(***************************************************************************)
(* C7: every intensity getColorIntensity returns while a table is rendered *)
(* lies in [0, 100] and comes from no division by zero.                    *)
(***************************************************************************)
C7_IntensityInRange ==
  view = "table" =>
    \A i \in 1..Len(cellText) : \A j \in 1..Len(cellText[i]) :
      /\ InRange(cellText[i][j])
      /\ cellBg[i][j] # NoCall => InRange(cellBg[i][j])

C9_ExtremesOfDisplayed ==
  (view = "table" /\ Cardinality(Displayed(matrix)) >= 2) =>
    \A i \in Side, j \in Side :
      /\ matrix[i][j] = SetMin(Displayed(matrix)) => cellBg[i][j] = Num(0)
      /\ matrix[i][j] = SetMax(Displayed(matrix)) => cellBg[i][j] = Num(100)

(***************************************************************************)
(* C10: the intensity of a displayed non-zero cell is                      *)
(* (value - min) / (max - min) * 100 with min and max over the non-zero    *)
(* values the grid shows; it is therefore a function of the grid alone.    *)
(***************************************************************************)
C10_ScaledOverDisplayed ==
  view = "table" =>
    \A i \in Side, j \in Side :
      matrix[i][j] # 0 =>
        /\ cellBg[i][j] = cellIntensity(matrix[i][j], Displayed(matrix))
        /\ cellText[i][j] = cellIntensity(matrix[i][j], Displayed(matrix))

(***************************************************************************)
(* C11: while a table is rendered getColorIntensity is never called with   *)
(* value 0: a cell whose value is 0 obtains no intensity, neither for its  *)
(* background nor for its text.                                            *)
(***************************************************************************)
C11_ZeroNeverScaled ==
  view = "table" =>
    \A i \in 1..Len(matrix) : \A j \in 1..Len(matrix[i]) :
      matrix[i][j] = 0 => cellBg[i][j] = NoCall /\ cellText[i][j] = NoCall

(***************************************************************************)
(* C12: a cell whose value is 0, for an absent pair or for a record of     *)
(* value 0, gets the neutral background instead of a colour of the scale   *)
(* and shows "-", whatever the other values are.                           *)
(***************************************************************************)
C12_ZeroCellNeutral ==
  view = "table" =>
    \A i \in 1..Len(matrix) : \A j \in 1..Len(matrix[i]) :
      matrix[i][j] = 0 => cellBg[i][j] = NoCall /\ cellLabel[i][j] = "-"

\* One neutral cell for an absent pair, one for a record of value 0, next to a
\* coloured cell that shows its number.
C12_Witness ==
  /\ view = "table"
  /\ \E i \in Side, j \in Side :
       /\ PairRecords(data, domains[i], domains[j]) = {}
       /\ cellBg[i][j] = NoCall /\ cellLabel[i][j] = "-"
  /\ \E i \in Side, j \in Side :
       /\ PairRecords(data, domains[i], domains[j]) # {}
       /\ matrix[i][j] = 0
       /\ cellBg[i][j] = NoCall /\ cellLabel[i][j] = "-"
  /\ \E i \in Side, j \in Side :
       /\ matrix[i][j] > 0
       /\ cellBg[i][j] # NoCall /\ cellLabel[i][j] # "-"

(***************************************************************************)
(* C13: the empty list gives empty domains, an empty grid and the "no data"*)
(* state; every non-empty list gives a table.                              *)
(***************************************************************************)
C13_EmptyStateIffEmptyList ==
  Rendered =>
    /\ data = <<>> => domains = <<>> /\ matrix = <<>> /\ view = "empty"
    /\ data # <<>> => view = "table"

\* The empty list has been rendered.
C13_Witness ==
  /\ data = <<>>
  /\ view = "empty"
  /\ domains = <<>>
  /\ matrix = <<>>

(***************************************************************************)
(* C19: a render pass, which builds the matrix and computes the            *)
(* intensities, leaves the record list as it was (same records, same       *)
(* order, same fields) and changes nothing outside the component.          *)
(***************************************************************************)
C19_InputUnchanged == [][data' = data /\ UNCHANGED <<dashVars, authVars, appVars, svcVars>>]_vars

\* A table built from a list whose order can be observed.
C19_Witness ==
  /\ view = "table"
  /\ Len(data) >= 2
  /\ data[1] # data[Len(data)]

(***************************************************************************)
(* C14: whenever the statistics fetch has failed (neither the API nor      *)
(* Supabase delivered statistics), the page that is shown is the error     *)
(* card and the matrix component is not rendered.                          *)
(***************************************************************************)
C14_FailedFetchShowsError ==
  (lastFetch = "mock" /\ dashView # "loading") =>
    dashView = "error" /\ view = "none"

(***************************************************************************)
(* C15: when both the API call and the Supabase queries fail, the caller   *)
(* of fetchDashboardStats observes an error, not statistics with a record  *)
(* list.                                                                   *)
(***************************************************************************)
C15_FailureIsSignalled == lastFetch = "mock" => statsStatus = "error"

(***************************************************************************)
(* C16: a record list that contains a malformed record is rejected as a    *)
(* whole before the matrix is built: no table is ever displayed for it.    *)
(***************************************************************************)
C16_MalformedRejected == view = "table" => ~IsMalformedList(data)

(***************************************************************************)
(* C17: when a refresh delivers a malformed record list while a matrix is  *)
(* displayed, that matrix stays displayed unchanged.                       *)
(***************************************************************************)
C17_OldMatrixRetained ==
  [][(view = "table" /\ statsData' # statsData /\ IsMalformedList(statsData')) =>
       (view' = view /\ domains' = domains /\ matrix' = matrix
          /\ cellLabel' = cellLabel)]_vars

(***************************************************************************)
(* C18: after any sequence of refreshes the displayed domains and cells    *)
(* are those built from the most recent record list alone, both from the   *)
(* same list.                                                              *)
(***************************************************************************)
C18_DisplayFromLatestList ==
  view \in {"empty", "table"} =>
    /\ data = statsData
    /\ domains = ComputeDomains(statsData)
    /\ matrix = ComputeMatrix(ComputeDomains(statsData), statsData)

\* A refresh replaced a displayed list by a different list of the API, and the
\* table of the new list is displayed.
C18_Witness ==
  /\ superseded
  /\ lastFetch = "api"
  /\ view = "table"
  /\ data = statsData

(***************************************************************************)
(* C20: once SIGNED_OUT has been handled, user stays null, and             *)
(* isAuthenticated false, until the next SIGNED_IN event, also when a      *)
(* profile lookup of an earlier SIGNED_IN event resolves afterwards.       *)
(***************************************************************************)
C20_SignedOutStaysNull == signedOut => user = NullUser /\ ~isAuthenticated

(***************************************************************************)
(* C21: fetchDashboardStats tries the API first, starts the Supabase       *)
(* queries only when the API call failed, and returns the mock statistics  *)
(* only when a Supabase query failed; when the API call succeeds, the      *)
(* result is the API's list and no other source is consulted.              *)
(***************************************************************************)
FetchReturns == statsPc # "idle" /\ statsPc' = "idle"

C21_SourcesInOrder ==
  [][/\ (statsPc = "idle" /\ statsPc' # "idle") => statsPc' = "api"
     /\ (statsPc' = "domainCounts" /\ statsPc # "domainCounts") => statsPc = "api"
     /\ (statsPc' = "elementCounts" /\ statsPc # "elementCounts") => statsPc = "domainCounts"
     /\ (FetchReturns /\ lastFetch' = "supabase") =>
          (statsPc = "elementCounts" /\ statsData' = relationshipMatrix)
     /\ (FetchReturns /\ lastFetch' = "mock") =>
          (statsPc \in {"domainCounts", "elementCounts"} /\ statsData' = getMockDashboardStats)
     /\ (FetchReturns /\ statsPc = "api") =>
          (lastFetch' = "api" /\ statsData' \in ApiLists)
     /\ (FetchReturns /\ lastFetch' = "api") => statsPc = "api"]_vars

\* The mock statistics were returned by a fetch that followed a successful one.
C21_Witness == lastFetch = "mock" /\ superseded /\ statsPc = "idle"

(***************************************************************************)
(* C22: while App is initialized and not loading, a user who is not        *)
(* authenticated sees no protected page and is never left on a protected   *)
(* route (the route redirected to /login), and an authenticated user is    *)
(* never left on /login (it redirected to /).                              *)
(***************************************************************************)
C22_RoutesGuarded ==
  (page # "none" /\ initialized /\ ~loading) =>
    /\ ~isAuthenticated =>
         (page \notin ProtectedPages /\ path \notin ProtectedPaths /\ page # "Navigate")
    /\ (~isAuthenticated /\ path = "/login") => page = "Login"
    /\ isAuthenticated => (path # "/login" /\ page # "Login" /\ page # "Navigate")
    /\ (isAuthenticated /\ path \in ProtectedPaths) => page = PageOf(path)

\* A signed-out user was sent from the page they were on to the login page.
C22_Witness ==
  initialized /\ ~loading /\ signedOut /\ ~isAuthenticated /\ path = "/login" /\ page = "Login"

(***************************************************************************)
(* C23: provided the Supabase calls of initAuth settle, App eventually is  *)
(* initialized and not loading, so that it leaves the loading screen.      *)
(***************************************************************************)
C23_LeavesLoadingScreen == <>(initialized /\ ~loading /\ page \notin {"Loading", "none"})

(***************************************************************************)
(* C24: a call of logout changes user only when it returns success, and    *)
(* then sets it to null; it returns success only after the Supabase        *)
(* sign-out succeeded and, for a Microsoft user, the Microsoft sign-out    *)
(* too; a failed sign-out makes it return failure with user as it was.     *)
(***************************************************************************)
LogoutReturns == logoutPc # "idle" /\ logoutPc' = "idle"

C24_LogoutAllOrNothing ==
  [][/\ (LogoutReturns /\ logoutResult' = "failure") => user' = user
     /\ (logoutPc' # logoutPc /\ ~(LogoutReturns /\ logoutResult' = "success")) => user' = user
     /\ (LogoutReturns /\ logoutResult' = "success") =>
          /\ user' = NullUser
          /\ "supabase" \in logoutLog'
          /\ logoutProvider = "microsoft" => "microsoft" \in logoutLog'
     /\ LogoutReturns => logoutResult' \in {"success", "failure"}]_vars

\* A Microsoft user was logged out of both providers.
C24_Witness ==
  /\ logoutResult = "success"
  /\ logoutProvider = "microsoft"
  /\ logoutLog = {"supabase", "microsoft"}
  /\ user = NullUser

(***************************************************************************)
(* C25: what fetchRecentActivity returns from its Supabase fallback is the *)
(* activities of the fetched elements and models, each row once, at most   *)
(* 10 of them (each query delivers at most 5 rows), newest first; when a   *)
(* query failed, it is the mock list and nothing of the fetched rows.      *)
(***************************************************************************)
C25_RecentActivityCombined ==
  /\ actSource = "supabase" =>
       /\ Len(recentElements) <= QueryLimit /\ Len(recentModels) <= QueryLimit
       /\ Len(actResult) <= SliceLimit
       /\ Len(actResult) = Len(recentElements) + Len(recentModels)
       /\ \A k \in 1..Len(recentElements) :
            Cardinality({i \in 1..Len(actResult) :
                           actResult[i] = ElementActivities(recentElements)[k]}) = 1
       /\ \A k \in 1..Len(recentModels) :
            Cardinality({i \in 1..Len(actResult) :
                           actResult[i] = ModelActivities(recentModels)[k]}) = 1
       /\ \A i \in 1..(Len(actResult) - 1) :
            actResult[i].timestamp >= actResult[i + 1].timestamp
  /\ actSource = "mock" => actResult = getMockActivity

\* Ten activities were returned, with an element between two models.
C25_Witness ==
  /\ actSource = "supabase"
  /\ Len(actResult) = SliceLimit
  /\ \E i \in 2..(Len(actResult) - 1) :
       /\ actResult[i].type = "element_created"
       /\ actResult[i - 1].type = "model_updated"
       /\ actResult[i + 1].type = "model_updated"

(***************************************************************************)
(* C26: for a non-empty element list getElementCountsFromData returns one  *)
(* entry per distinct creation day, in ascending order of date, each with  *)
(* the number of elements created that day, so that the counts sum to the  *)
(* number of elements; for the empty list, and only then, it returns the   *)
(* mock series of 30 entries.                                              *)
(***************************************************************************)
RECURSIVE SumCounts(_)
SumCounts(S) == IF S = <<>> THEN 0 ELSE Head(S).count + SumCounts(Tail(S))

DaysOf(els) == {DateOf(els[k]) : k \in 1..Len(els)}

C26_OneEntryPerDay ==
  countsPc = "returned" =>
    IF elements # <<>>
    THEN /\ Len(elementCounts) = Cardinality(DaysOf(elements))
         /\ {elementCounts[i].date : i \in 1..Len(elementCounts)} = DaysOf(elements)
         /\ \A i \in 1..(Len(elementCounts) - 1) :
              elementCounts[i].date < elementCounts[i + 1].date
         /\ \A i \in 1..Len(elementCounts) :
              elementCounts[i].count =
                Cardinality({k \in 1..Len(elements) : DateOf(elements[k]) = elementCounts[i].date})
         /\ SumCounts(elementCounts) = Len(elements)
    ELSE /\ Len(elementCounts) = MockDays
         /\ \A i \in 1..Len(elementCounts) : elementCounts[i].count \in 1..MockMaxCount

\* Elements of a later day came first in the list, and a day had two elements.
C26_Witness ==
  /\ countsPc = "returned"
  /\ Len(elements) = 3
  /\ DateOf(elements[1]) > DateOf(elements[2])
  /\ DateOf(elements[3]) = DateOf(elements[1])
  /\ Len(elementCounts) = 2

(***************************************************************************)
(* C27, as stated: a request without a query gets 400 before any lookup,   *)
(* OpenAI call or log; an interaction is logged only with a userId and     *)
(* after the completion; an OPTIONS request touches none of them; and any  *)
(* exception thrown while the request is handled yields status 500.        *)
(***************************************************************************)
Untouched == repoLookups = 0 /\ openaiCalls = 0 /\ logInserts = 0

Answered == hPc = "done"

C27_AnyExceptionGives500 ==
  /\ (Answered /\ request.method = "POST" /\ request.json /\ request.query \in {Undefined, ""}) =>
       (status = 400 /\ Untouched)
  /\ logInserts > 0 => (request.userId \notin {Undefined, ""} /\ completed)
  /\ (Answered /\ request.method = "OPTIONS") => Untouched
  /\ (Answered /\ thrown # {}) => status = 500

(***************************************************************************)
(* C27, amended: as above, but only an exception that reaches the          *)
(* handler's catch (parsing the body, the OpenAI call, reading the         *)
(* completion) yields 500; an exception inside fetchEAContext or           *)
(* logInteraction is caught there, and the request is answered with 200.   *)
(***************************************************************************)
HandlerExceptions == {"req.json", "openai", "completion.choices"}

C27_HandlerExceptionGives500 ==
  /\ (Answered /\ request.method = "POST" /\ request.json /\ request.query \in {Undefined, ""}) =>
       (status = 400 /\ Untouched)
  /\ logInserts > 0 => (request.userId \notin {Undefined, ""} /\ completed)
  /\ (Answered /\ request.method = "OPTIONS") => (status = 200 /\ Untouched)
  /\ (Answered /\ thrown \cap HandlerExceptions # {}) => status = 500
  /\ (Answered /\ status = 500) => thrown \cap HandlerExceptions # {}
  /\ (Answered /\ thrown # {} /\ thrown \cap HandlerExceptions = {}) => status = 200

\* A request was answered with 200 and logged although the repository lookup threw.
C27_Witness ==
  /\ Answered
  /\ status = 200
  /\ logInserts = 1
  /\ "fetchEAContext" \in thrown

(***************************************************************************)
(* C28: for every displayed cell that is not 0, the background shade is a  *)
(* multiple of 100 from 0 to 900, the border shade is the background shade *)
(* plus 100, capped at 900, and the text is white exactly when the cell's  *)
(* intensity is greater than 50.                                           *)
(***************************************************************************)
Shades == {100 * k : k \in 0..9}

C28_ShadesInRange ==
  view = "table" =>
    \A i \in 1..Len(matrix) : \A j \in 1..Len(matrix[i]) :
      matrix[i][j] # 0 =>
        LET c == cellClass[i][j]
        IN  /\ c.bg[1] = "blue"
            /\ c.bg[2] \in Shades
            /\ c.border = <<"blue", IF c.bg[2] + 100 > 900 THEN 900 ELSE c.bg[2] + 100>>
            /\ (c.text = "text-white") <=>
                 (cellText[i][j].num > 50 * cellText[i][j].den)

\* The darkest cell, border capped and text white, beside the lightest one.
C28_Witness ==
  /\ view = "table"
  /\ \E i \in 1..Len(matrix) : \E j \in 1..Len(matrix[i]) :
       /\ matrix[i][j] # 0
       /\ cellClass[i][j].bg = <<"blue", 900>>
       /\ cellClass[i][j].border = <<"blue", 900>>
       /\ cellClass[i][j].text = "text-white"
  /\ \E i \in 1..Len(matrix) : \E j \in 1..Len(matrix[i]) :
       /\ matrix[i][j] # 0
       /\ cellClass[i][j].bg = <<"blue", 0>>
       /\ cellClass[i][j].text # "text-white"

====
